---- MODULE Spec2Model ----
(***************************************************************************)
(* Mini Chess (5x5): rule engine, move execution, minimax / alpha-beta     *)
(* search with iterative deepening, and the game loop of                   *)
(* src/MonarchsChessCode.py.  src/MiniChessSkeletonCode.py is the same     *)
(* rule engine and game loop restricted to two human players.              *)
(***************************************************************************)
EXTENDS Integers, Sequences, FiniteSets, TLC

VARIABLES
    board,                      \* current_game_state["board"]
    turn,                       \* current_game_state["turn"]
    current_turn,               \* half-moves applied by the game loop
    half_moves_since_capture,   \* the no-capture counter of the object
    win_flag,                   \* set when a real move captures a King
    player_types,               \* "white"/"black" -> "human"/"ai"
    use_alpha_beta,             \* search setting
    heuristic_choice,           \* "e0", "e1", "e2" (or anything else)
    timeout,                    \* seconds allowed for one ai_move
    pc,                         \* where the program is (see Next)
    chosen_move,                \* play(): the move about to be applied
    output,                     \* the last event written by print_game
    search,                     \* locals of ai_move: depth, best_move, best_score
    stack,                      \* the active minimax calls, root first
    time_up,                    \* a clock reading has exceeded the time limit
    polls,                      \* clock readings made in the current search
    at_call,                    \* the game as it was when ai_move was called
    played_since_capture,       \* moves really applied since the last real capture
    applied,                    \* real moves applied in this run
    probe                       \* inputs and results of direct calls

vars == <<board, turn, current_turn, half_moves_since_capture, win_flag,
          player_types, use_alpha_beta, heuristic_choice, timeout, pc,
          chosen_move, output, search, stack, time_up, polls, at_call,
          played_since_capture, applied, probe>>

----------------------------------------------------------------------------
(* Program constants *)

BOARD_SIZE == 5

MAX_TURNS == 100

FULL_TURNS_FOR_DRAW == 10

MOVES_FOR_DRAW == FULL_TURNS_FOR_DRAW * 2

DEPTH_CEILING == 5

\* self.timeout
TIMEOUT_SECONDS == 5

\* float('inf') and float('-inf'): beyond every material score
PosInf == 1000000

NegInf == 0 - PosInf

\* Python's None, and a present value, for the optional move and score
None == <<>>

Some(x) == <<x>>

----------------------------------------------------------------------------
(* Pieces and boards *)

Empty == "."

WhitePieces == {"wK", "wQ", "wB", "wN", "wp"}

BlackPieces == {"bK", "bQ", "bB", "bN", "bp"}

Pieces == WhitePieces \cup BlackPieces

\* piece[0]
Color(piece) == IF piece \in WhitePieces THEN "w" ELSE "b"

\* piece[1]
Type(piece) ==
    CASE piece \in {"wK", "bK"} -> "K"
      [] piece \in {"wQ", "bQ"} -> "Q"
      [] piece \in {"wB", "bB"} -> "B"
      [] piece \in {"wN", "bN"} -> "N"
      [] piece \in {"wp", "bp"} -> "p"
      [] OTHER -> "?"

\* piece[0] + 'Q'
QueenOf(piece) == IF Color(piece) = "w" THEN "wQ" ELSE "bQ"

Rows == 0 .. (BOARD_SIZE - 1)

Row(s) ==
    [c \in Rows |-> s[c + 1]]

init_board ==
    [board |-> [r \in Rows |->
                    CASE r = 0 -> Row(<<"bK", "bQ", "bB", "bN", ".">>)
                      [] r = 1 -> Row(<<".", ".", "bp", "bp", ".">>)
                      [] r = 2 -> Row(<<".", ".", ".", ".", ".">>)
                      [] r = 3 -> Row(<<".", "wp", "wp", ".", ".">>)
                      [] r = 4 -> Row(<<".", "wN", "wB", "wQ", "wK">>)],
     turn |-> "white"]

\* Abs forgotten: the difference itself
Abs_forgotten(x) == x

Abs(x) == IF x < 0 THEN 0 - x ELSE x

Max(a, b) == IF a >= b THEN a ELSE b

Min(a, b) == IF a <= b THEN a ELSE b

----------------------------------------------------------------------------
(* Rule engine: validation *)

is_within_bounds(row, col) ==
    0 <= row /\ row < BOARD_SIZE /\ 0 <= col /\ col < BOARD_SIZE

\* The while loop shared by is_valid_linear_move and is_valid_diagonal_move:
\* walk from (r, c) by (dr, dc) until the end square; "blocked" on a piece.
\* A Python list accepts the indices -5..4 (negative ones count from the
\* end); any other index raises IndexError ("fault").
\* A path walk that does not look at the squares it crosses
PathWalk_jumps(b, r, c, dr, dc, end) == "clear"

RECURSIVE PathWalk(_, _, _, _, _, _)
PathWalk(b, r, c, dr, dc, end) ==
    IF <<r, c>> = end THEN "clear"
    ELSE IF r < 0 - BOARD_SIZE \/ r >= BOARD_SIZE
            \/ c < 0 - BOARD_SIZE \/ c >= BOARD_SIZE THEN "fault"
    ELSE IF b[r % BOARD_SIZE][c % BOARD_SIZE] # Empty THEN "blocked"
    ELSE PathWalk(b, r + dr, c + dc, dr, dc, end)

is_valid_linear_move(b, start, end) ==
    IF start[1] # end[1] /\ start[2] # end[2] THEN FALSE
    ELSE LET row_step == IF start[1] = end[1] THEN 0
                         ELSE IF end[1] > start[1] THEN 1 ELSE -1
             col_step == IF start[2] = end[2] THEN 0
                         ELSE IF end[2] > start[2] THEN 1 ELSE -1
         IN PathWalk(b, start[1] + row_step, start[2] + col_step,
                     row_step, col_step, end) = "clear"

is_valid_diagonal_move(b, start, end) ==
    IF Abs(start[1] - end[1]) # Abs(start[2] - end[2]) THEN FALSE
    ELSE LET row_step == IF end[1] > start[1] THEN 1 ELSE -1
             col_step == IF end[2] > start[2] THEN 1 ELSE -1
         IN PathWalk(b, start[1] + row_step, start[2] + col_step,
                     row_step, col_step, end) = "clear"

Reject(reason) == [valid |-> FALSE, reason |-> reason]

Accept == [valid |-> TRUE, reason |-> ""]

\* The piece rule with a Pawn allowed straight onto an occupied square of
\* the opponent
PieceRule_pawn_takes_straight(b, current_turn_, piece, start, end) ==
    LET piece_type == Type(piece) IN
    CASE piece_type = "K" ->
           IF Abs(start[1] - end[1]) <= 1 /\ Abs(start[2] - end[2]) <= 1
           THEN Accept
           ELSE Reject("King can only move one square in any direction.")
      [] piece_type = "Q" ->
           IF is_valid_linear_move(b, start, end)
              \/ is_valid_diagonal_move(b, start, end)
           THEN Accept
           ELSE Reject("Queen must move in a straight line or diagonally with no obstacles.")
      [] piece_type = "B" ->
           IF is_valid_diagonal_move(b, start, end)
           THEN Accept
           ELSE Reject("Bishop can only move diagonally with no obstacles.")
      [] piece_type = "N" ->
           IF <<Abs(start[1] - end[1]), Abs(start[2] - end[2])>> \in {<<2, 1>>, <<1, 2>>}
           THEN Accept
           ELSE Reject("Knight moves in an L-shape (2 squares in one direction and 1 in the other).")
      [] piece_type = "p" ->
           LET direction == IF current_turn_ = "white" THEN -1 ELSE 1 IN
           IF start[2] = end[2]
           THEN IF end[1] = start[1] + direction
                THEN Accept
                ELSE Reject("Pawn can only move forward one square into an empty space.")
           ELSE IF Abs(start[2] - end[2]) = 1 /\ end[1] = start[1] + direction
           THEN IF b[end[1]][end[2]] # Empty
                   /\ Color(b[end[1]][end[2]]) # Color(piece)
                THEN Accept
                ELSE Reject("Pawn can only capture diagonally one square.")
           ELSE Reject("Invalid pawn move.")
      [] OTHER -> Reject("Unknown piece type encountered.")

\* Step (5) of validate_move: the rule of the piece on the start square
PieceRule(b, current_turn_, piece, start, end) ==
    LET piece_type == Type(piece) IN
    CASE piece_type = "K" ->
           IF Abs(start[1] - end[1]) <= 1 /\ Abs(start[2] - end[2]) <= 1
           THEN Accept
           ELSE Reject("King can only move one square in any direction.")
      [] piece_type = "Q" ->
           IF is_valid_linear_move(b, start, end)
              \/ is_valid_diagonal_move(b, start, end)
           THEN Accept
           ELSE Reject("Queen must move in a straight line or diagonally with no obstacles.")
      [] piece_type = "B" ->
           IF is_valid_diagonal_move(b, start, end)
           THEN Accept
           ELSE Reject("Bishop can only move diagonally with no obstacles.")
      [] piece_type = "N" ->
           IF <<Abs(start[1] - end[1]), Abs(start[2] - end[2])>> \in {<<2, 1>>, <<1, 2>>}
           THEN Accept
           ELSE Reject("Knight moves in an L-shape (2 squares in one direction and 1 in the other).")
      [] piece_type = "p" ->
           LET direction == IF current_turn_ = "white" THEN -1 ELSE 1 IN
           IF start[2] = end[2]
           THEN IF end[1] = start[1] + direction /\ b[end[1]][end[2]] = Empty
                THEN Accept
                ELSE Reject("Pawn can only move forward one square into an empty space.")
           ELSE IF Abs(start[2] - end[2]) = 1 /\ end[1] = start[1] + direction
           THEN IF b[end[1]][end[2]] # Empty
                   /\ Color(b[end[1]][end[2]]) # Color(piece)
                THEN Accept
                ELSE Reject("Pawn can only capture diagonally one square.")
           ELSE Reject("Invalid pawn move.")
      [] OTHER -> Reject("Unknown piece type encountered.")

\* validate_move without the two tests of whose turn it is
validate_move_any_owner(game_state, move) ==
    IF move = None
    THEN Reject("Move format incorrect. Please use the format 'B2 B3'.")
    ELSE
    LET start == move[1]
        end   == move[2]
        b     == game_state.board
    IN
    IF ~is_within_bounds(start[1], start[2])
    THEN Reject("Starting coordinate out of bounds.")
    ELSE IF ~is_within_bounds(end[1], end[2])
    THEN Reject("Destination coordinate out of bounds.")
    ELSE
    LET piece  == b[start[1]][start[2]]
        target == b[end[1]][end[2]]
    IN
    IF piece = Empty
    THEN Reject("No piece at the starting square.")
    ELSE IF target # Empty /\ Color(target) = Color(piece)
    THEN Reject("Cannot move to a square occupied by your own piece.")
    ELSE PieceRule(b, game_state.turn, piece, start, end)

\* validate_move with the destination test made before the ownership test
validate_move_destination_first(game_state, move) ==
    IF move = None
    THEN Reject("Move format incorrect. Please use the format 'B2 B3'.")
    ELSE
    LET start == move[1]
        end   == move[2]
        b     == game_state.board
    IN
    IF ~is_within_bounds(start[1], start[2])
    THEN Reject("Starting coordinate out of bounds.")
    ELSE IF ~is_within_bounds(end[1], end[2])
    THEN Reject("Destination coordinate out of bounds.")
    ELSE
    LET piece  == b[start[1]][start[2]]
        target == b[end[1]][end[2]]
    IN
    IF piece = Empty
    THEN Reject("No piece at the starting square.")
    ELSE IF target # Empty /\ Color(target) = Color(piece)
    THEN Reject("Cannot move to a square occupied by your own piece.")
    ELSE IF game_state.turn = "white" /\ Color(piece) # "w"
    THEN Reject("It's white's turn, but the selected piece is not white.")
    ELSE IF game_state.turn = "black" /\ Color(piece) # "b"
    THEN Reject("It's black's turn, but the selected piece is not black.")
    ELSE PieceRule(b, game_state.turn, piece, start, end)

\* validate_move without the test of the destination holding an own piece
validate_move_no_own_piece_test(game_state, move) ==
    IF move = None
    THEN Reject("Move format incorrect. Please use the format 'B2 B3'.")
    ELSE
    LET start == move[1]
        end   == move[2]
        b     == game_state.board
    IN
    IF ~is_within_bounds(start[1], start[2])
    THEN Reject("Starting coordinate out of bounds.")
    ELSE IF ~is_within_bounds(end[1], end[2])
    THEN Reject("Destination coordinate out of bounds.")
    ELSE
    LET piece == b[start[1]][start[2]] IN
    IF piece = Empty
    THEN Reject("No piece at the starting square.")
    ELSE IF game_state.turn = "white" /\ Color(piece) # "w"
    THEN Reject("It's white's turn, but the selected piece is not white.")
    ELSE IF game_state.turn = "black" /\ Color(piece) # "b"
    THEN Reject("It's black's turn, but the selected piece is not black.")
    ELSE PieceRule(b, game_state.turn, piece, start, end)

\* validate_move(game_state, move): move is None or <<start, end>>
validate_move(game_state, move) ==
    IF move = None
    THEN Reject("Move format incorrect. Please use the format 'B2 B3'.")
    ELSE
    LET start == move[1]
        end   == move[2]
        b     == game_state.board
    IN
    IF ~is_within_bounds(start[1], start[2])
    THEN Reject("Starting coordinate out of bounds.")
    ELSE IF ~is_within_bounds(end[1], end[2])
    THEN Reject("Destination coordinate out of bounds.")
    ELSE
    LET piece == b[start[1]][start[2]] IN
    IF piece = Empty
    THEN Reject("No piece at the starting square.")
    ELSE IF game_state.turn = "white" /\ Color(piece) # "w"
    THEN Reject("It's white's turn, but the selected piece is not white.")
    ELSE IF game_state.turn = "black" /\ Color(piece) # "b"
    THEN Reject("It's black's turn, but the selected piece is not black.")
    ELSE
    LET target == b[end[1]][end[2]] IN
    IF target # Empty /\ Color(target) = Color(piece)
    THEN Reject("Cannot move to a square occupied by your own piece.")
    ELSE PieceRule(b, game_state.turn, piece, start, end)

\* GridMoves with the two loops over the end square outermost
GridMoves_end_square_first ==
    [k \in 1 .. (BOARD_SIZE * BOARD_SIZE * BOARD_SIZE * BOARD_SIZE) |->
        <<  << ((k - 1) \div BOARD_SIZE) % BOARD_SIZE,
               (k - 1) % BOARD_SIZE >>,
            << (k - 1) \div (BOARD_SIZE * BOARD_SIZE * BOARD_SIZE),
               ((k - 1) \div (BOARD_SIZE * BOARD_SIZE)) % BOARD_SIZE >> >>]

\* Every (start, end) pair of the grid in the order of the four nested
\* range(BOARD_SIZE) loops of get_all_valid_moves
GridMoves ==
    [k \in 1 .. (BOARD_SIZE * BOARD_SIZE * BOARD_SIZE * BOARD_SIZE) |->
        <<  << (k - 1) \div (BOARD_SIZE * BOARD_SIZE * BOARD_SIZE),
               ((k - 1) \div (BOARD_SIZE * BOARD_SIZE)) % BOARD_SIZE >>,
            << ((k - 1) \div BOARD_SIZE) % BOARD_SIZE,
               (k - 1) % BOARD_SIZE >> >>]

OwnedBySideToMove(game_state, sq) ==
    LET piece == game_state.board[sq[1]][sq[2]] IN
    piece # Empty
    /\ ((game_state.turn = "white" /\ Color(piece) = "w")
        \/ (game_state.turn = "black" /\ Color(piece) = "b"))

get_all_valid_moves(game_state) ==
    SelectSeq(GridMoves,
              LAMBDA move : OwnedBySideToMove(game_state, move[1])
                            /\ validate_move(game_state, move).valid)

CountKings(b) ==
    Cardinality({sq \in Rows \X Rows :
                    b[sq[1]][sq[2]] # Empty /\ Type(b[sq[1]][sq[2]]) = "K"})

is_game_over(game_state) == CountKings(game_state.board) < 2

----------------------------------------------------------------------------
(* Evaluator *)

\* The weight of a King as if every profile were the default
KingWeight_default_only(h) == 999

KingWeight(h) ==
    CASE h = "e0" -> 999
      [] h = "e1" -> 900
      [] h = "e2" -> 1200
      [] OTHER -> 999

\* weights.get(p_type, 0)
Weight(h, p_type) ==
    CASE p_type = "p" -> 1
      [] p_type = "B" -> 3
      [] p_type = "N" -> 3
      [] p_type = "Q" -> 9
      [] p_type = "K" -> KingWeight(h)
      [] OTHER -> 0

RECURSIVE SumCells(_, _, _, _)
SumCells(b, h, color, k) ==
    IF k = BOARD_SIZE * BOARD_SIZE THEN 0
    ELSE LET piece == b[k \div BOARD_SIZE][k % BOARD_SIZE] IN
         (IF piece # Empty /\ Color(piece) = color
          THEN Weight(h, Type(piece)) ELSE 0)
         + SumCells(b, h, color, k + 1)

evaluate_board(game_state, h) ==
    SumCells(game_state.board, h, "w", 0) - SumCells(game_state.board, h, "b", 0)

----------------------------------------------------------------------------
(* Rule engine: move execution *)

\* Promotes without the promotion of a Pawn that arrives by a capture
Promotes_straight_only(game_state, move) ==
    LET piece == game_state.board[move[1][1]][move[1][2]] IN
    /\ Type(piece) = "p"
    /\ move[1][2] = move[2][2]
    /\ \/ (game_state.turn = "white" /\ move[2][1] = 0)
       \/ (game_state.turn = "black" /\ move[2][1] = BOARD_SIZE - 1)

\* "if piece[1] == 'p' and (white and end_row == 0 or black and end_row == 4)"
Promotes(game_state, move) ==
    Type(game_state.board[move[1][1]][move[1][2]]) = "p"
    /\ ((game_state.turn = "white" /\ move[2][1] = 0)
        \/ (game_state.turn = "black" /\ move[2][1] = BOARD_SIZE - 1))

\* BoardAfter without "board[start_row][start_col] = '.'"
BoardAfter_keeps_source(game_state, move) ==
    LET b     == game_state.board
        piece == b[move[1][1]][move[1][2]]
        placed == IF Promotes(game_state, move) THEN QueenOf(piece) ELSE piece
    IN [b EXCEPT ![move[2][1]][move[2][2]] = placed]

\* The board after "board[start] = '.'" and "board[end] = piece"
BoardAfter(game_state, move) ==
    LET b     == game_state.board
        piece == b[move[1][1]][move[1][2]]
        placed == IF Promotes(game_state, move) THEN QueenOf(piece) ELSE piece
        cleared == [b EXCEPT ![move[1][1]][move[1][2]] = Empty]
    IN [cleared EXCEPT ![move[2][1]][move[2][2]] = placed]

OtherSide(side) == IF side = "white" THEN "black" ELSE "white"

\* make_move with a counter that is never reset by a capture
make_move_never_resets(game_state, move, simulate, self) ==
    LET captured_piece == game_state.board[move[2][1]][move[2][2]]
        captured == captured_piece # Empty
    IN
    [game_state |-> [board |-> BoardAfter(game_state, move),
                     turn  |-> OtherSide(game_state.turn)],
     self |-> [self EXCEPT
                 !.win_flag =
                     IF captured /\ ~simulate /\ Type(captured_piece) = "K"
                     THEN TRUE ELSE @,
                 !.half_moves_since_capture = @ + 1],
     promotion |-> Promotes(game_state, move),
     captured_piece |-> captured_piece]

\* make_move that always hands the turn to black
make_move_turn_to_black(game_state, move, simulate, self) ==
    LET captured_piece == game_state.board[move[2][1]][move[2][2]]
        captured == captured_piece # Empty
    IN
    [game_state |-> [board |-> BoardAfter(game_state, move),
                     turn  |-> "black"],
     self |-> [self EXCEPT
                 !.win_flag =
                     IF captured /\ ~simulate /\ Type(captured_piece) = "K"
                     THEN TRUE ELSE @,
                 !.half_moves_since_capture = IF captured THEN 0 ELSE @ + 1],
     promotion |-> Promotes(game_state, move),
     captured_piece |-> captured_piece]

\* make_move that takes any real capture for the capture of a King
make_move_any_capture_wins(game_state, move, simulate, self) ==
    LET captured_piece == game_state.board[move[2][1]][move[2][2]]
        captured == captured_piece # Empty
    IN
    [game_state |-> [board |-> BoardAfter(game_state, move),
                     turn  |-> OtherSide(game_state.turn)],
     self |-> [self EXCEPT
                 !.win_flag = IF captured /\ ~simulate THEN TRUE ELSE @,
                 !.half_moves_since_capture = IF captured THEN 0 ELSE @ + 1],
     promotion |-> Promotes(game_state, move),
     captured_piece |-> captured_piece]

\* The calls of make_move that raise IndexError: "board[end_row][end_col]"
\* or "board[start_row][start_col]" with an index a list of BOARD_SIZE items
\* does not accept (it accepts -BOARD_SIZE .. BOARD_SIZE - 1), or "piece[1]"
\* with piece = '.', the content of an empty start square
make_move_faults(game_state, move) ==
    LET coords == {move[1][1], move[1][2], move[2][1], move[2][2]} IN
    \/ \E k \in coords : k < 0 - BOARD_SIZE \/ k >= BOARD_SIZE
    \/ game_state.board[move[1][1] % BOARD_SIZE][move[1][2] % BOARD_SIZE] = Empty

\* make_move that sets win_flag on simulated moves too
make_move_ignores_simulate(game_state, move, simulate, self) ==
    LET captured_piece == game_state.board[move[2][1]][move[2][2]]
        captured == captured_piece # Empty
    IN
    [game_state |-> [board |-> BoardAfter(game_state, move),
                     turn  |-> OtherSide(game_state.turn)],
     self |-> [self EXCEPT
                 !.win_flag =
                     IF captured /\ Type(captured_piece) = "K"
                     THEN TRUE ELSE @,
                 !.half_moves_since_capture = IF captured THEN 0 ELSE @ + 1],
     promotion |-> Promotes(game_state, move),
     captured_piece |-> captured_piece]

\* make_move(game_state, move, simulate=...) on an object whose counters are
\* self = [half_moves_since_capture, win_flag].  The move is executed on
\* game_state; the counters are the object's own, whatever state is passed.
make_move(game_state, move, simulate, self) ==
    LET captured_piece == game_state.board[move[2][1]][move[2][2]]
        captured == captured_piece # Empty
    IN
    [game_state |-> [board |-> BoardAfter(game_state, move),
                     turn  |-> OtherSide(game_state.turn)],
     self |-> [self EXCEPT
                 !.win_flag =
                     IF captured /\ ~simulate /\ Type(captured_piece) = "K"
                     THEN TRUE ELSE @,
                 !.half_moves_since_capture = IF captured THEN 0 ELSE @ + 1],
     promotion |-> Promotes(game_state, move),
     captured_piece |-> captured_piece]

----------------------------------------------------------------------------
(* Bounds of the model *)

\* The time limit of a search is found exceeded no later than at its
\* MaxPolls-th clock reading
MaxPolls == 20

\* Real moves applied in one run of the game loop
MaxMoves == 2

\* Deepest direct minimax call made without a time limit
MaxDepth == 3

----------------------------------------------------------------------------
(* Search engine: minimax as the stack of its active calls *)

\* "time.time() - start_time > time_limit" can come out as: once exceeded,
\* always exceeded; never with an infinite limit; otherwise either way.
PollOutcomes ==
    IF timeout = PosInf THEN {FALSE}
    ELSE IF time_up \/ polls + 1 >= MaxPolls THEN {TRUE}
    ELSE {FALSE, TRUE}

\* Cutoff one point too eager: "if beta <= alpha + 1: break"
Cutoff_one_early(alpha, beta) == beta <= alpha + 1

\* The pruning test of both branches: "if beta <= alpha: break"
Cutoff(alpha, beta) == beta <= alpha

\* Improves with a tie counted as an improvement
Improves_on_ties(maximizing, score, value) ==
    IF maximizing THEN score >= value ELSE score <= value

\* Improves with the minimizing side comparing like the maximizing side
Improves_always_greater(maximizing, score, value) == score > value

\* "if score > value" (maximizing) / "if score < value" (minimizing)
Improves(maximizing, score, value) ==
    IF maximizing THEN score > value ELSE score < value

\* AfterBranch without the deepcopy: the move is made on the caller's object
AfterBranch_shared(game_state, new_state) == new_state

\* "new_state = copy.deepcopy(game_state)": the simulated move and the whole
\* subtree below it work on new_state, a separate object, so the caller's
\* game_state is after the branch what it was before it.
AfterBranch(game_state, new_state) == game_state

\* minimax past its two early returns: valid_moves, best_move, value and
\* the loop position i (the next move of valid_moves to try)
NewFrame(game_state, depth, maximizing, alpha, beta) ==
    [game_state |-> game_state, depth |-> depth, maximizing |-> maximizing,
     alpha |-> alpha, beta |-> beta,
     valid_moves |-> get_all_valid_moves(game_state), i |-> 1,
     value |-> IF maximizing THEN NegInf ELSE PosInf,
     best_move |-> None, cut |-> FALSE]

\* The loop body after the recursive call returned `score` for the move
\* valid_moves[i], with new_state as that call left it
AfterChild(f, score, new_state) ==
    LET better == Improves(f.maximizing, score, f.value)
        value2 == IF better THEN score ELSE f.value
        alpha2 == IF use_alpha_beta /\ f.maximizing
                  THEN Max(f.alpha, value2) ELSE f.alpha
        beta2  == IF use_alpha_beta /\ ~f.maximizing
                  THEN Min(f.beta, value2) ELSE f.beta
    IN [f EXCEPT !.game_state = AfterBranch(f.game_state, new_state),
                 !.value = value2,
                 !.best_move = IF better THEN f.valid_moves[f.i] ELSE @,
                 !.alpha = alpha2,
                 !.beta = beta2,
                 !.cut = use_alpha_beta /\ Cutoff(alpha2, beta2),
                 !.i = @ + 1]

\* The loop of a call is over: valid_moves exhausted, or "break"
Finished(f) == f.cut \/ f.i > Len(f.valid_moves)

\* The loop of a call was left by "break" with moves still untried
Pruned(f) == f.cut /\ f.i <= Len(f.valid_moves)

\* Both early returns of minimax, given the clock reading at its entry
IsLeaf(game_state, depth, exceeded) ==
    exceeded \/ depth = 0 \/ is_game_over(game_state)

current_game_state == [board |-> board, turn |-> turn]

\* The locals of ai_move at its start (depth = 1); for a direct call of
\* minimax, depth is the depth asked for
NewSearch(caller, depth) ==
    [caller |-> caller, depth |-> depth, best_move |-> None,
     best_score |-> None, trace |-> <<>>, pruned |-> FALSE]

Self ==
    [half_moves_since_capture |-> half_moves_since_capture,
     win_flag |-> win_flag]

Event(event, detail) == [event |-> event, detail |-> detail]

\* The root minimax call returned (move, score) to its caller, leaving the
\* object it was given as game_state.  In ai_move: "if move is not None",
\* "depth += 1", "if depth > 5: break".  search.trace keeps what each root
\* call returned and whether the time limit was found exceeded during it;
\* search.pruned, whether any call of the search left its loop by "break".
\* The root return with ai_move storing the result of a depth even when its
\* move is None
RootReturn_erases(move, score, game_state, exceeded, pruned) ==
    /\ board' = game_state.board
    /\ turn' = game_state.turn
    /\ search' =
          [search EXCEPT
              !.best_move = move,
              !.best_score = Some(score),
              !.depth = IF search.caller = "direct" THEN @ ELSE @ + 1,
              !.pruned = @ \/ pruned,
              !.trace = Append(@, [depth |-> search.depth, move |-> move,
                                   score |-> score, timed_out |-> exceeded])]
    /\ pc' = IF search.caller = "direct" THEN "returned"
             ELSE IF search.depth + 1 > DEPTH_CEILING THEN "ai_done"
             ELSE "ai_loop"

RootReturn(move, score, game_state, exceeded, pruned) ==
    /\ board' = game_state.board
    /\ turn' = game_state.turn
    /\ search' =
          [search EXCEPT
              !.best_move = IF move # None THEN move ELSE @,
              !.best_score = IF move # None THEN Some(score) ELSE @,
              !.depth = IF search.caller = "direct" THEN @ ELSE @ + 1,
              !.pruned = @ \/ pruned,
              !.trace = Append(@, [depth |-> search.depth, move |-> move,
                                   score |-> score, timed_out |-> exceeded])]
    /\ pc' = IF search.caller = "direct" THEN "returned"
             ELSE IF search.depth + 1 > DEPTH_CEILING THEN "ai_done"
             ELSE "ai_loop"

\* play(): the AI branch up to the call of ai_move, and ai_move up to its loop
AiStart ==
    /\ pc = "turn"
    /\ player_types[turn] = "ai"
    /\ applied < MaxMoves
    /\ pc' = "ai_loop"
    /\ search' = NewSearch("ai_move", 1)
    /\ stack' = <<>>
    /\ time_up' = FALSE
    /\ polls' = 0
    /\ at_call' = [board |-> board, turn |-> turn, current_turn |-> current_turn,
                   half_moves_since_capture |-> half_moves_since_capture,
                   win_flag |-> win_flag]
    /\ output' = Event("(AI) is thinking...", "")
    /\ UNCHANGED <<board, turn, current_turn, half_moves_since_capture,
                   win_flag, player_types, use_alpha_beta, heuristic_choice,
                   timeout, chosen_move, played_since_capture, applied, probe>>

\* AiLoop without the "break": the next depth is started whatever the clock
AiLoop_ignores_clock ==
    /\ pc = "ai_loop"
    /\ \E exceeded \in PollOutcomes :
          /\ time_up' = exceeded
          /\ pc' = "call_root"
    /\ polls' = polls + 1
    /\ UNCHANGED <<board, turn, current_turn, half_moves_since_capture,
                   win_flag, player_types, use_alpha_beta, heuristic_choice,
                   timeout, chosen_move, output, search, stack, at_call,
                   played_since_capture, applied, probe>>

\* ai_move: the top of "while True": break when the time limit is exceeded
AiLoop ==
    /\ pc = "ai_loop"
    /\ \E exceeded \in PollOutcomes :
          /\ time_up' = exceeded
          /\ pc' = IF exceeded THEN "ai_done" ELSE "call_root"
    /\ polls' = polls + 1
    /\ UNCHANGED <<board, turn, current_turn, half_moves_since_capture,
                   win_flag, player_types, use_alpha_beta, heuristic_choice,
                   timeout, chosen_move, output, search, stack, at_call,
                   played_since_capture, applied, probe>>

\* The root call minimax(game_state, depth, maximizing, -inf, inf, ...)
MinimaxRoot ==
    /\ pc = "call_root"
    /\ polls' = polls + 1
    /\ \E exceeded \in PollOutcomes :
          /\ time_up' = exceeded
          /\ IF IsLeaf(current_game_state, search.depth, exceeded)
             THEN /\ RootReturn(None,
                                evaluate_board(current_game_state, heuristic_choice),
                                current_game_state, exceeded, FALSE)
                  /\ UNCHANGED stack
             ELSE /\ stack' = <<NewFrame(current_game_state, search.depth,
                                         turn = "white", NegInf, PosInf)>>
                  /\ pc' = "minimax"
                  /\ UNCHANGED <<board, turn, search>>
    /\ UNCHANGED <<current_turn, half_moves_since_capture, win_flag,
                   player_types, use_alpha_beta, heuristic_choice, timeout,
                   chosen_move, output, at_call, played_since_capture,
                   applied, probe>>

\* One turn of "for move in valid_moves" in the innermost active call:
\* deepcopy, make_move(simulate=True), and the recursive call up to its
\* early returns (then the rest of the loop body) or to its own loop
SearchStep ==
    /\ pc = "minimax"
    /\ ~Finished(stack[Len(stack)])
    /\ LET n   == Len(stack)
           f   == stack[n]
           sim == make_move(f.game_state, f.valid_moves[f.i], TRUE, Self)
       IN
       /\ half_moves_since_capture' = sim.self.half_moves_since_capture
       /\ win_flag' = sim.self.win_flag
       /\ polls' = polls + 1
       /\ \E exceeded \in PollOutcomes :
             /\ time_up' = exceeded
             /\ stack' =
                   IF IsLeaf(sim.game_state, f.depth - 1, exceeded)
                   THEN [stack EXCEPT ![n] =
                            AfterChild(f, evaluate_board(sim.game_state,
                                                         heuristic_choice),
                                       sim.game_state)]
                   ELSE Append(stack,
                               NewFrame(sim.game_state, f.depth - 1,
                                        ~f.maximizing, f.alpha, f.beta))
    /\ UNCHANGED <<board, turn, current_turn, player_types, use_alpha_beta,
                   heuristic_choice, timeout, pc, chosen_move, output, search,
                   at_call, played_since_capture, applied, probe>>

\* "return best_move, value" of the innermost active call
SearchReturn ==
    /\ pc = "minimax"
    /\ Finished(stack[Len(stack)])
    /\ LET n == Len(stack)
           f == stack[n]
       IN
       IF n = 1
       THEN /\ RootReturn(f.best_move, f.value, f.game_state, time_up,
                          Pruned(f))
            /\ stack' = <<>>
       ELSE /\ stack' = [SubSeq(stack, 1, n - 1) EXCEPT ![n - 1] =
                            AfterChild(stack[n - 1], f.value, f.game_state)]
            /\ search' = [search EXCEPT !.pruned = @ \/ Pruned(f)]
            /\ UNCHANGED <<board, turn, pc>>
    /\ UNCHANGED <<current_turn, half_moves_since_capture, win_flag,
                   player_types, use_alpha_beta, heuristic_choice, timeout,
                   chosen_move, output, time_up, polls, at_call,
                   played_since_capture, applied, probe>>

\* ai_move returns (best_move, best_score, move_time) to play()
AiReturn ==
    /\ pc = "ai_done"
    /\ IF search.best_move = None
       THEN /\ pc' = "over"
            /\ output' = Event("AI could not find a valid move. Game over.", "")
            /\ UNCHANGED chosen_move
       ELSE /\ pc' = "apply"
            /\ chosen_move' = search.best_move
            /\ output' = Event("Minimax/Alpha-Beta search score:", "")
    /\ UNCHANGED <<board, turn, current_turn, half_moves_since_capture,
                   win_flag, player_types, use_alpha_beta, heuristic_choice,
                   timeout, search, stack, time_up, polls, at_call,
                   played_since_capture, applied, probe>>

----------------------------------------------------------------------------
(* The game loop, play() *)

\* What parse_input can return: None, or a pair of squares of the grid
ParsedInputs == {None} \cup {GridMoves[k] : k \in DOMAIN GridMoves}

\* A human types 'exit'
HumanExit ==
    /\ pc = "turn"
    /\ player_types[turn] = "human"
    /\ pc' = "over"
    /\ output' = Event("Game exited by user.", "")
    /\ UNCHANGED <<board, turn, current_turn, half_moves_since_capture,
                   win_flag, player_types, use_alpha_beta, heuristic_choice,
                   timeout, chosen_move, search, stack, time_up, polls,
                   at_call, played_since_capture, applied, probe>>

\* HumanInput with the turn counted before the move is validated
HumanInput_counts_first(move_coords) ==
    /\ pc = "turn"
    /\ player_types[turn] = "human"
    /\ applied < MaxMoves
    /\ current_turn' = current_turn + 1
    /\ LET v == validate_move(current_game_state, move_coords) IN
       IF ~v.valid
       THEN /\ output' = Event("Invalid move.", v.reason)
            /\ UNCHANGED <<pc, chosen_move>>
       ELSE /\ chosen_move' = move_coords
            /\ pc' = "apply"
            /\ output' = Event("move", "")
    /\ UNCHANGED <<board, turn, half_moves_since_capture,
                   win_flag, player_types, use_alpha_beta, heuristic_choice,
                   timeout, search, stack, time_up, polls, at_call,
                   played_since_capture, applied, probe>>

\* A human types a move: parse_input, validate_move, "continue" when invalid
HumanInput(move_coords) ==
    /\ pc = "turn"
    /\ player_types[turn] = "human"
    /\ applied < MaxMoves
    /\ LET v == validate_move(current_game_state, move_coords) IN
       IF ~v.valid
       THEN /\ output' = Event("Invalid move.", v.reason)
            /\ UNCHANGED <<pc, chosen_move>>
       ELSE /\ chosen_move' = move_coords
            /\ pc' = "apply"
            /\ output' = Event("move", "")
    /\ UNCHANGED <<board, turn, current_turn, half_moves_since_capture,
                   win_flag, player_types, use_alpha_beta, heuristic_choice,
                   timeout, search, stack, time_up, polls, at_call,
                   played_since_capture, applied, probe>>

\* The rest of the loop body with the maximum-moves test before the win test
ApplyMove_draw_first ==
    /\ pc = "apply"
    /\ LET r == make_move(current_game_state, chosen_move, FALSE, Self) IN
       /\ current_turn' = current_turn + 1
       /\ board' = r.game_state.board
       /\ turn' = r.game_state.turn
       /\ half_moves_since_capture' = r.self.half_moves_since_capture
       /\ win_flag' = r.self.win_flag
       /\ played_since_capture' =
             IF r.captured_piece # Empty THEN 0 ELSE played_since_capture + 1
       /\ applied' = applied + 1
       /\ IF current_turn + 1 >= MAX_TURNS
          THEN /\ pc' = "over"
               /\ output' = Event("Maximum number of moves reached. Game is a draw.", "")
          ELSE IF r.self.win_flag
          THEN /\ pc' = "over"
               /\ output' = Event("wins", "")
          ELSE IF r.self.half_moves_since_capture >= MOVES_FOR_DRAW
          THEN /\ pc' = "over"
               /\ output' = Event("No captures in 10 full turns (20 moves). Game is a draw.", "")
          ELSE /\ pc' = "turn"
               /\ output' = Event("Turn", "")
    /\ UNCHANGED <<player_types, use_alpha_beta, heuristic_choice, timeout,
                   chosen_move, search, stack, time_up, polls, at_call, probe>>

\* The rest of the loop body: count the turn, make_move, then the three
\* end-of-game tests in their order
ApplyMove ==
    /\ pc = "apply"
    /\ LET r == make_move(current_game_state, chosen_move, FALSE, Self) IN
       /\ current_turn' = current_turn + 1
       /\ board' = r.game_state.board
       /\ turn' = r.game_state.turn
       /\ half_moves_since_capture' = r.self.half_moves_since_capture
       /\ win_flag' = r.self.win_flag
       /\ played_since_capture' =
             IF r.captured_piece # Empty THEN 0 ELSE played_since_capture + 1
       /\ applied' = applied + 1
       /\ IF r.self.win_flag
          THEN /\ pc' = "over"
               /\ output' = Event("wins", "")
          ELSE IF current_turn + 1 >= MAX_TURNS
          THEN /\ pc' = "over"
               /\ output' = Event("Maximum number of moves reached. Game is a draw.", "")
          ELSE IF r.self.half_moves_since_capture >= MOVES_FOR_DRAW
          THEN /\ pc' = "over"
               /\ output' = Event("No captures in 10 full turns (20 moves). Game is a draw.", "")
          ELSE /\ pc' = "turn"
               /\ output' = Event("Turn", "")
    /\ UNCHANGED <<player_types, use_alpha_beta, heuristic_choice, timeout,
                   chosen_move, search, stack, time_up, polls, at_call, probe>>

Place(pieces) ==
    [r \in Rows |-> [c \in Rows |->
        IF <<r, c>> \in DOMAIN pieces THEN pieces[<<r, c>>] ELSE Empty]]

\* Positions late in a game: few pieces left, the counters near their limits
LateWhite ==
    [board |-> Place(<<4, 3>> :> "wK" @@ <<2, 2>> :> "wp"
                      @@ <<0, 1>> :> "bK" @@ <<1, 3>> :> "bp"),
     turn |-> "white"]

LateBlack ==
    [board |-> Place(<<2, 2>> :> "wK" @@ <<3, 1>> :> "wp"
                      @@ <<1, 1>> :> "bK" @@ <<0, 3>> :> "bN"),
     turn |-> "black"]

\* White has only King moves, none of them a capture; black can take the pawn
LateQuiet ==
    [board |-> Place(<<4, 4>> :> "wK" @@ <<2, 2>> :> "wp" @@ <<1, 2>> :> "bK"),
     turn |-> "white"]

\* A position of the middle game: the pawn can take a defended Knight
MidWhite ==
    [board |-> Place(<<4, 4>> :> "wK" @@ <<2, 1>> :> "wp"
                      @@ <<0, 1>> :> "bK" @@ <<1, 0>> :> "bN"),
     turn |-> "white"]

Starts ==
    { [game_state |-> init_board, current_turn |-> 0, clock |-> 0],
      [game_state |-> MidWhite, current_turn |-> 40, clock |-> 3],
      [game_state |-> LateWhite, current_turn |-> 96, clock |-> 18],
      [game_state |-> LateWhite, current_turn |-> 98, clock |-> 19],
      [game_state |-> LateBlack, current_turn |-> 97, clock |-> 19],
      [game_state |-> LateBlack, current_turn |-> 99, clock |-> 5],
      [game_state |-> LateQuiet, current_turn |-> 96, clock |-> 17],
      [game_state |-> LateQuiet, current_turn |-> 98, clock |-> 19] }

Players(w, b) == [white |-> w, black |-> b]

Configs ==
    { [player_types |-> Players("human", "human"),
       use_alpha_beta |-> FALSE, heuristic_choice |-> "e0"],
      [player_types |-> Players("human", "ai"),
       use_alpha_beta |-> TRUE, heuristic_choice |-> "e1"],
      [player_types |-> Players("ai", "human"),
       use_alpha_beta |-> FALSE, heuristic_choice |-> "e0"],
      [player_types |-> Players("ai", "ai"),
       use_alpha_beta |-> TRUE, heuristic_choice |-> "e2"] }

NoSearch == NewSearch("none", 0)

Init ==
    \E s \in Starts, c \in Configs :
        /\ board = s.game_state.board
        /\ turn = s.game_state.turn
        /\ current_turn = s.current_turn
        /\ half_moves_since_capture = s.clock
        /\ win_flag = FALSE
        /\ player_types = c.player_types
        /\ use_alpha_beta = c.use_alpha_beta
        /\ heuristic_choice = c.heuristic_choice
        /\ timeout = TIMEOUT_SECONDS
        /\ pc = "turn"
        /\ chosen_move = None
        /\ output = Event("Initial Board:", "")
        /\ search = NoSearch
        /\ stack = <<>>
        /\ time_up = FALSE
        /\ polls = 0
        /\ at_call = None
        /\ played_since_capture = s.clock
        /\ applied = 0
        /\ probe = None

Next ==
    \/ HumanExit
    \/ \E move_coords \in ParsedInputs : HumanInput(move_coords)
    \/ AiStart
    \/ AiLoop
    \/ MinimaxRoot
    \/ SearchStep
    \/ SearchReturn
    \/ AiReturn
    \/ ApplyMove

Spec == Init /\ [][Next]_vars

----------------------------------------------------------------------------
(* Direct calls of minimax and ai_move on a given game state *)

\* A position of the middle game with every kind of piece on the board
Crowded ==
    [board |-> Place(<<4, 0>> :> "wK" @@ <<4, 2>> :> "wQ" @@ <<3, 3>> :> "wN"
                      @@ <<3, 1>> :> "wp" @@ <<2, 4>> :> "wB"
                      @@ <<0, 4>> :> "bK" @@ <<0, 2>> :> "bQ" @@ <<1, 1>> :> "bN"
                      @@ <<1, 3>> :> "bp" @@ <<2, 0>> :> "bB"),
     turn |-> "white"]

\* Final positions: black has just taken the white King, white is to move
KingTaken ==
    [board |-> Place(<<2, 2>> :> "bK" @@ <<0, 3>> :> "bN" @@ <<3, 1>> :> "wp"),
     turn |-> "white"]

\* ... and the King was white's last piece
LastPieceTaken ==
    [board |-> Place(<<2, 2>> :> "bK" @@ <<0, 3>> :> "bN"),
     turn |-> "white"]

Finals == {KingTaken, LastPieceTaken}

WithTurn(game_state, side) == [game_state EXCEPT !.turn = side]

\* The game states and heuristics the direct calls are made with; the
\* positions marked wide are searched one level less deep than the others
SearchCalls ==
    { [game_state |-> init_board, heuristic_choice |-> "e0", wide |-> TRUE],
      [game_state |-> WithTurn(init_board, "black"), heuristic_choice |-> "e2",
       wide |-> TRUE],
      [game_state |-> Crowded, heuristic_choice |-> "e1", wide |-> TRUE],
      [game_state |-> WithTurn(Crowded, "black"), heuristic_choice |-> "e0",
       wide |-> TRUE],
      [game_state |-> MidWhite, heuristic_choice |-> "e0", wide |-> FALSE],
      [game_state |-> LateWhite, heuristic_choice |-> "e2", wide |-> FALSE],
      [game_state |-> LateBlack, heuristic_choice |-> "e1", wide |-> FALSE],
      [game_state |-> LateQuiet, heuristic_choice |-> "e0", wide |-> FALSE],
      [game_state |-> KingTaken, heuristic_choice |-> "e0", wide |-> FALSE],
      [game_state |-> LastPieceTaken, heuristic_choice |-> "e0", wide |-> FALSE] }

\* Either minimax(game_state, depth, maximizing, -inf, inf, start_time,
\* time_limit) with a time limit never exceeded and use_alpha_beta off, or
\* ai_move(game_state) with either setting
SearchInit ==
    \E call \in SearchCalls :
        /\ board = call.game_state.board
        /\ turn = call.game_state.turn
        /\ heuristic_choice = call.heuristic_choice
        /\ \/ /\ \E depth \in 1..MaxDepth :
                    /\ call.wide => depth < MaxDepth
                    /\ search = NewSearch("direct", depth)
              /\ pc = "call_root"
              /\ timeout = PosInf
              /\ use_alpha_beta = FALSE
           \/ /\ search = NewSearch("ai_move", 1)
              /\ pc = "ai_loop"
              /\ timeout = TIMEOUT_SECONDS
              /\ use_alpha_beta \in BOOLEAN
        /\ current_turn = 0
        /\ half_moves_since_capture = 0
        /\ win_flag = FALSE
        /\ player_types = Players("ai", "ai")
        /\ chosen_move = None
        /\ output = Event("", "")
        /\ stack = <<>>
        /\ time_up = FALSE
        /\ polls = 0
        /\ at_call = [board |-> board, turn |-> turn, current_turn |-> 0,
                      half_moves_since_capture |-> 0, win_flag |-> FALSE]
        /\ played_since_capture = 0
        /\ applied = 0
        /\ probe = None

\* The same call made again on the same object with use_alpha_beta on, the
\* result of the plain call kept in probe
SearchAgain ==
    /\ pc = "returned"
    /\ ~use_alpha_beta
    /\ probe' = search.trace[1]
    /\ use_alpha_beta' = TRUE
    /\ search' = NewSearch("direct", search.depth)
    /\ pc' = "call_root"
    /\ polls' = 0
    /\ UNCHANGED <<board, turn, current_turn, half_moves_since_capture,
                   win_flag, player_types, heuristic_choice, timeout,
                   chosen_move, output, stack, time_up, at_call,
                   played_since_capture, applied>>

SearchNext ==
    \/ AiLoop
    \/ MinimaxRoot
    \/ SearchStep
    \/ SearchReturn
    \/ SearchAgain

SpecSearch == SearchInit /\ [][SearchNext]_vars

----------------------------------------------------------------------------
(* Direct calls of the rule engine on a given game state *)

\* Coordinates a caller can pass: the grid and one step off it on each side
ProbeCoords == (0 - 1) .. BOARD_SIZE

ProbeMoves ==
    {<< <<r1, c1>>, <<r2, c2>> >> :
        r1 \in ProbeCoords, c1 \in ProbeCoords,
        r2 \in ProbeCoords, c2 \in ProbeCoords}

\* Both sides have a Pawn one step from its far rank, with a straight
\* advance and a capture onto that rank open to it
Promoting ==
    [board |-> Place(<<4, 0>> :> "wK" @@ <<1, 1>> :> "wp" @@ <<4, 2>> :> "wB"
                      @@ <<0, 4>> :> "bK" @@ <<3, 3>> :> "bp" @@ <<0, 2>> :> "bN"),
     turn |-> "white"]

\* A Knight on (2,2), every square next to it occupied, and pieces of both
\* colours on the squares a Knight's jump away
KnightCentre ==
    [board |-> Place(<<2, 2>> :> "wN" @@ <<4, 3>> :> "wK" @@ <<0, 1>> :> "wp"
                      @@ <<2, 1>> :> "wp" @@ <<3, 2>> :> "wB" @@ <<3, 3>> :> "wQ"
                      @@ <<0, 4>> :> "bK" @@ <<1, 0>> :> "bp" @@ <<3, 4>> :> "bQ"
                      @@ <<1, 2>> :> "bp" @@ <<2, 3>> :> "bB" @@ <<1, 1>> :> "bN"
                      @@ <<1, 3>> :> "bp" @@ <<3, 1>> :> "wp"),
     turn |-> "white"]

KnightCentreBlack ==
    [board |-> Place(<<2, 2>> :> "bN" @@ <<0, 3>> :> "bK" @@ <<3, 0>> :> "bp"
                      @@ <<1, 2>> :> "bp" @@ <<2, 3>> :> "bB"
                      @@ <<4, 1>> :> "wK" @@ <<1, 4>> :> "wQ" @@ <<2, 1>> :> "wp"
                      @@ <<3, 2>> :> "wB"),
     turn |-> "black"]

\* The Knight alone with the two Kings
KnightOpen ==
    [board |-> Place(<<2, 2>> :> "wN" @@ <<4, 4>> :> "wK" @@ <<0, 0>> :> "bK"),
     turn |-> "white"]

RulePositions ==
    {init_board, Crowded, MidWhite, LateWhite, LateBlack, LateQuiet,
     Promoting, KnightCentre, KnightCentreBlack, KnightOpen, KingTaken}

RulesInit ==
    \E game_state \in RulePositions, side \in {"white", "black"} :
        /\ board = game_state.board
        /\ turn = side
        /\ current_turn = 0
        /\ half_moves_since_capture = 0
        /\ win_flag = FALSE
        /\ player_types = Players("human", "human")
        /\ use_alpha_beta = FALSE
        /\ heuristic_choice = "e0"
        /\ timeout = TIMEOUT_SECONDS
        /\ pc = "rules"
        /\ chosen_move = None
        /\ output = Event("", "")
        /\ search = NoSearch
        /\ stack = <<>>
        /\ time_up = FALSE
        /\ polls = 0
        /\ at_call = None
        /\ played_since_capture = 0
        /\ applied = 0
        /\ probe = None

\* validate_move(game_state, move) called on the current game state
Validate(move) ==
    /\ pc = "rules"
    /\ probe = None
    /\ probe' = [call |-> "validate_move", move |-> move,
                 result |-> validate_move(current_game_state, move)]
    /\ UNCHANGED <<board, turn, current_turn, half_moves_since_capture,
                   win_flag, player_types, use_alpha_beta, heuristic_choice,
                   timeout, pc, chosen_move, output, search, stack, time_up,
                   polls, at_call, played_since_capture, applied>>

\* make_move(game_state, move) called on the current game state with a move
\* validate_move accepts
MakeMove(move) ==
    /\ pc = "rules"
    /\ probe = None
    /\ validate_move(current_game_state, move).valid
    /\ LET r == make_move(current_game_state, move, FALSE, Self) IN
       /\ board' = r.game_state.board
       /\ turn' = r.game_state.turn
       /\ half_moves_since_capture' = r.self.half_moves_since_capture
       /\ win_flag' = r.self.win_flag
       /\ probe' = [call |-> "make_move", move |-> move,
                    before |-> current_game_state,
                    result |-> [promotion |-> r.promotion,
                                captured_piece |-> r.captured_piece]]
    /\ UNCHANGED <<current_turn, player_types, use_alpha_beta,
                   heuristic_choice, timeout, pc, chosen_move, output, search,
                   stack, time_up, polls, at_call, played_since_capture,
                   applied>>

\* get_all_valid_moves(game_state) called on the current game state
GenerateMoves ==
    /\ pc = "rules"
    /\ probe = None
    /\ probe' = [call |-> "get_all_valid_moves",
                 result |-> get_all_valid_moves(current_game_state)]
    /\ UNCHANGED <<board, turn, current_turn, half_moves_since_capture,
                   win_flag, player_types, use_alpha_beta, heuristic_choice,
                   timeout, pc, chosen_move, output, search, stack, time_up,
                   polls, at_call, played_since_capture, applied>>

\* The values of heuristic_choice: the three profiles and an unrecognised one
Heuristics == {"e0", "e1", "e2", "e9"}

\* evaluate_board(game_state) called on the current game state by an object
\* whose heuristic_choice is h
Evaluate(h) ==
    /\ pc = "rules"
    /\ probe = None
    /\ heuristic_choice' = h
    /\ probe' = [call |-> "evaluate_board", heuristic_choice |-> h,
                 result |-> evaluate_board(current_game_state, h)]
    /\ UNCHANGED <<board, turn, current_turn, half_moves_since_capture,
                   win_flag, player_types, use_alpha_beta, timeout, pc,
                   chosen_move, output, search, stack, time_up, polls,
                   at_call, played_since_capture, applied>>

RulesNext ==
    \/ \E move \in ProbeMoves : Validate(move)
    \/ \E move \in ProbeMoves : MakeMove(move)
    \/ GenerateMoves
    \/ \E h \in Heuristics : Evaluate(h)

SpecRules == RulesInit /\ [][RulesNext]_vars

----------------------------------------------------------------------------
(* Properties of the game loop, checked under Spec *)

RealState ==
    [board |-> board, turn |-> turn, current_turn |-> current_turn,
     half_moves_since_capture |-> half_moves_since_capture,
     win_flag |-> win_flag]

\* C1: when ai_move returns, the board, the side to move, the no-capture
\* counter, the turn counter and the win flag are what they were when it
\* was called
C1_AiMoveLeavesGameUntouched ==
    pc = "ai_done" => RealState = at_call

\* The trace entries of the depths that ran with no clock reading over the
\* limit, and of those interrupted by it
CompletedDepths == {k \in DOMAIN search.trace : ~search.trace[k].timed_out}

TimedOutDepths == {k \in DOMAIN search.trace : search.trace[k].timed_out}

DeepestCompleted ==
    search.trace[CHOOSE k \in CompletedDepths : \A j \in CompletedDepths : j <= k]

\* C2: when the time limit is exceeded during the traversal of a depth,
\* ai_move returns the move and score of the deepest depth that completed
\* before it
C2_TimedOutDepthDiscarded ==
    (pc = "ai_done" /\ TimedOutDepths # {} /\ CompletedDepths # {}
     /\ DeepestCompleted.move # None)
        => /\ search.best_move = DeepestCompleted.move
           /\ search.best_score = Some(DeepestCompleted.score)

\* C6: a move the game loop rejects (malformed or illegal) leaves the board,
\* the side to move, both counters and the win flag as they were, and the
\* same side is asked again
C6_RejectedMoveChangesNothing ==
    [][(pc = "turn" /\ output'.event = "Invalid move.")
          => (RealState' = RealState /\ pc' = "turn")]_vars

C6_Witness ==
    /\ pc = "turn"
    /\ applied > 0
    /\ output = Event("Invalid move.", "No piece at the starting square.")

\* The end-of-game conditions: fewer than two Kings, 100 half-moves played,
\* 20 half-moves played since the last capture
EndCondition ==
    \/ CountKings(board) < 2
    \/ current_turn >= MAX_TURNS
    \/ played_since_capture >= MOVES_FOR_DRAW

Declared == {"wins",
             "Maximum number of moves reached. Game is a draw.",
             "No captures in 10 full turns (20 moves). Game is a draw."}

Draws == Declared \ {"wins"}

\* C7: no move is applied once an end-of-game condition holds, and a win or
\* a draw is declared after an applied move only when one holds
C7_GameEndsExactlyOnEndCondition ==
    [][/\ (applied' = applied + 1 => ~EndCondition)
       /\ ((applied' = applied + 1 /\ output'.event \in Declared)
              => EndCondition')]_vars

\* The no-capture counter at the start of the turn in progress
ClockAtTurnStart ==
    IF player_types[turn] = "ai" THEN at_call.half_moves_since_capture
    ELSE half_moves_since_capture

\* C8: a non-capturing move applied on a turn that started with the
\* no-capture counter at 19 brings it to 20 and the loop declares a draw
C8_ClockNineteenThenDraw ==
    [][(pc = "apply" /\ applied' = applied + 1 /\ ClockAtTurnStart = 19
        /\ board[chosen_move[2][1]][chosen_move[2][2]] = Empty)
          => /\ half_moves_since_capture' = MOVES_FOR_DRAW
             /\ pc' = "over"
             /\ output'.event \in Draws]_vars

\* The square a move ends on, as it is on board b before the move
Target(b, move) == b[move[2][1]][move[2][2]]

\* C9: every make_move, real or simulated, sets the no-capture counter to 0
\* when the destination square was occupied and otherwise adds 1 to the
\* value it had before the call
C9_ClockFollowsCaptureRule ==
    [][/\ (applied' = applied + 1)
            => half_moves_since_capture' =
                  IF Target(board, chosen_move) # Empty THEN 0
                  ELSE half_moves_since_capture + 1
       /\ (pc = "minimax" /\ polls' = polls + 1)
            => LET f == stack[Len(stack)] IN
               half_moves_since_capture' =
                  IF Target(f.game_state.board, f.valid_moves[f.i]) # Empty
                  THEN 0 ELSE half_moves_since_capture + 1]_vars

C9_Witness ==
    /\ applied = 2
    /\ played_since_capture = 0
    /\ half_moves_since_capture = 0
    /\ current_turn = 2

\* C10: a step changes the side to move exactly when it applies a move, and
\* white is to move exactly when an even number of moves has been applied
C10_SideToMoveAlternates ==
    /\ [][(turn' # turn) <=> (applied' = applied + 1)]_vars
    /\ [](turn = "white" <=> current_turn % 2 = 0)

C10_Witness ==
    /\ applied = 2
    /\ turn = "white"
    /\ current_turn = 2
    /\ pc = "turn"

Kings == {"wK", "bK"}

\* C11: a move applied by the game loop that captures the enemy King sets
\* win_flag, and is_game_over is true of the state it leaves; a move that
\* captures another piece or nothing leaves win_flag as it was.
C11_KingCaptureSetsWinFlag ==
    [][(applied' = applied + 1)
          => IF Target(board, chosen_move) \in Kings
             THEN /\ Color(Target(board, chosen_move))
                        # Color(board[chosen_move[1][1]][chosen_move[1][2]])
                  /\ win_flag'
                  /\ is_game_over([board |-> board', turn |-> turn'])
             ELSE win_flag' = win_flag]_vars

\* The game loop has applied the capture of a King
C11_Witness ==
    /\ applied > 0
    /\ win_flag
    /\ CountKings(board) = 1
    /\ pc = "over"
    /\ output.event = "wins"

\* The calls of ai_move alone.  The program runs on its own: a step of a
\* call in progress is eventually taken.
AiMoveInit == SearchInit /\ search.caller = "ai_move"

AiMoveNext ==
    \/ AiLoop
    \/ MinimaxRoot
    \/ SearchStep
    \/ SearchReturn

SpecAiMove == AiMoveInit /\ [][AiMoveNext]_vars /\ WF_vars(AiMoveNext)

\* C21: win_flag changes only when a move applied by the game loop captures
\* a King, and then to true: no step of ai_move sets it, a simulated King
\* capture included, and once true it is never reset.
C21_WinFlagOnlyOnRealCapture ==
    [][(win_flag' # win_flag)
          => /\ applied' = applied + 1
             /\ Target(board, chosen_move) \in Kings
             /\ win_flag']_vars

\* The search has just simulated the capture of a King, win_flag still false
C21_Witness ==
    /\ pc = "minimax"
    /\ ~win_flag
    /\ LET f == stack[Len(stack)] IN
       /\ f.i > 1
       /\ Target(f.game_state.board, f.valid_moves[f.i - 1]) \in Kings
    /\ half_moves_since_capture = 0

\* C25: when the root state has both Kings and at least one legal move and
\* depth 1 completed within the time limit, ai_move returns a move, the move
\* is in get_all_valid_moves of the root state and validate_move accepts it
\* in the real game state; a later depth whose move is None does not erase
\* it.
C25_ReturnedMoveIsLegal ==
    (/\ pc = "ai_done"
     /\ CountKings(board) >= 2
     /\ get_all_valid_moves(RealState) # <<>>
     /\ 1 \in CompletedDepths)
       => /\ search.best_move # None
          /\ LET move == search.best_move
                 moves == get_all_valid_moves(RealState)
             IN /\ \E k \in DOMAIN moves : moves[k] = move
                /\ validate_move(RealState, move).valid

\* ai_move returns the move of a completed depth after a later depth
\* returned no move
C25_Witness ==
    /\ pc = "ai_done"
    /\ CountKings(board) >= 2
    /\ 1 \in CompletedDepths
    /\ \E k \in DOMAIN search.trace : k > 1 /\ search.trace[k].move = None
    /\ search.best_move # None
    /\ validate_move(RealState, search.best_move).valid

----------------------------------------------------------------------------
(* Properties of the search, checked under SpecSearch *)

\* The result of the call that has just returned
Returned == search.trace[Len(search.trace)]

\* C3: at a fixed depth and with no time limit reached, the search with
\* alpha-beta pruning returns the same score and the same move as the plain
\* search of the same game state.
C3_AlphaBetaSameResult ==
    (pc = "returned" /\ use_alpha_beta)
        => (Returned.move = probe.move /\ Returned.score = probe.score)

\* Both searches done at depth 3 or more, the second one having pruned
C3_Witness ==
    /\ pc = "returned"
    /\ use_alpha_beta
    /\ search.pruned
    /\ Returned.depth >= 3
    /\ Returned.move # None
    /\ Returned.move = probe.move
    /\ Returned.score = probe.score

\* C4: when the root game state has no legal move, ai_move returns no move
\* together with a score equal to the evaluation of that state.
C4_NoMoveRootScoresEvaluation ==
    (pc = "ai_done" /\ search.caller = "ai_move"
        /\ get_all_valid_moves(current_game_state) = <<>>)
        => (/\ search.best_move = None
            /\ search.best_score =
                  Some(evaluate_board(current_game_state, heuristic_choice)))

----------------------------------------------------------------------------
(* Properties of the rule engine, checked under SpecRules *)

OnGrid(sq) == sq[1] \in Rows /\ sq[2] \in Rows

\* The first of the five checks that the move fails on the game state, in
\* the order (1) both squares on the grid, (2) a piece on the source,
\* (3) that piece belongs to the side to move, (4) the destination holds no
\* piece of the mover's colour, (5) the rule of the piece; 0 when none fails
FirstFailedCheck(game_state, move) ==
    LET b == game_state.board
        start == move[1]
        end == move[2]
    IN
    IF ~(OnGrid(start) /\ OnGrid(end)) THEN 1
    ELSE IF b[start[1]][start[2]] \notin Pieces THEN 2
    ELSE IF b[start[1]][start[2]] \notin
               (IF game_state.turn = "white" THEN WhitePieces ELSE BlackPieces)
    THEN 3
    ELSE IF \/ {b[start[1]][start[2]], b[end[1]][end[2]]} \subseteq WhitePieces
            \/ {b[start[1]][start[2]], b[end[1]][end[2]]} \subseteq BlackPieces
    THEN 4
    ELSE IF ~PieceRule(b, game_state.turn, b[start[1]][start[2]], start, end).valid
    THEN 5
    ELSE 0

\* The reasons each check reports
ReasonsOf(check) ==
    CASE check = 1 -> {"Starting coordinate out of bounds.",
                       "Destination coordinate out of bounds."}
      [] check = 2 -> {"No piece at the starting square."}
      [] check = 3 -> {"It's white's turn, but the selected piece is not white.",
                       "It's black's turn, but the selected piece is not black."}
      [] check = 4 -> {"Cannot move to a square occupied by your own piece."}
      [] check = 5 -> {"King can only move one square in any direction.",
                       "Queen must move in a straight line or diagonally with no obstacles.",
                       "Bishop can only move diagonally with no obstacles.",
                       "Knight moves in an L-shape (2 squares in one direction and 1 in the other).",
                       "Pawn can only move forward one square into an empty space.",
                       "Pawn can only capture diagonally one square.",
                       "Invalid pawn move."}
      [] OTHER -> {""}

SideToMovePieces == IF turn = "white" THEN WhitePieces ELSE BlackPieces

\* C13: make_move does not fault on a move validate_move accepts: both
\* squares of such a move are on the 5x5 grid and its start square holds a
\* piece of the side to move, so no index is out of range and no empty
\* square is read as a piece.
C13_ValidatedMoveNeverFaults ==
    /\ (probe # None /\ probe.call = "validate_move" /\ probe.result.valid)
          => /\ OnGrid(probe.move[1])
             /\ OnGrid(probe.move[2])
             /\ board[probe.move[1][1]][probe.move[1][2]] \in SideToMovePieces
             /\ ~make_move_faults(current_game_state, probe.move)
    /\ (probe # None /\ probe.call = "make_move")
          => ~make_move_faults(probe.before, probe.move)

\* make_move has run on a validated capture
C13_Witness ==
    /\ probe # None
    /\ probe.call = "make_move"
    /\ OnGrid(probe.move[1])
    /\ OnGrid(probe.move[2])
    /\ probe.result.captured_piece # Empty
    /\ board[probe.move[1][1]][probe.move[1][2]] = Empty
    /\ board[probe.move[2][1]][probe.move[2][2]] # Empty

KnightSquares ==
    {<<0, 1>>, <<0, 3>>, <<1, 0>>, <<1, 4>>, <<3, 0>>, <<3, 4>>, <<4, 1>>, <<4, 3>>}

\* C14: for a Knight of the side to move on (2,2), validate_move accepts
\* exactly the destinations (0,1), (0,3), (1,0), (1,4), (3,0), (3,4), (4,1),
\* (4,3) that hold no piece of the Knight's colour, whatever stands on the
\* other squares.
C14_KnightMovesFromCentre ==
    (/\ probe # None
     /\ probe.call = "validate_move"
     /\ probe.move[1] = <<2, 2>>
     /\ board[2][2] \in {"wN", "bN"} \cap SideToMovePieces)
        => (probe.result.valid
              <=> (/\ probe.move[2] \in KnightSquares
                   /\ board[probe.move[2][1]][probe.move[2][2]]
                         \notin SideToMovePieces))

\* The Knight, hemmed in on all four sides, may jump onto an enemy piece
C14_Witness ==
    /\ probe # None
    /\ probe.call = "validate_move"
    /\ probe.move[1] = <<2, 2>>
    /\ board[2][2] = "wN"
    /\ turn = "white"
    /\ board[1][2] # Empty /\ board[2][1] # Empty
    /\ board[2][3] # Empty /\ board[3][2] # Empty
    /\ probe.move[2] = <<3, 4>>
    /\ board[3][4] \in BlackPieces
    /\ probe.result.valid

PawnB2B3 == << <<3, 1>>, <<2, 1>> >>

\* The initial position after the white Pawn went from (3,1) to (2,1)
AfterPawnB2B3 ==
    [r \in Rows |->
        CASE r = 0 -> Row(<<"bK", "bQ", "bB", "bN", ".">>)
          [] r = 1 -> Row(<<".", ".", "bp", "bp", ".">>)
          [] r = 2 -> Row(<<".", "wp", ".", ".", ".">>)
          [] r = 3 -> Row(<<".", ".", "wp", ".", ".">>)
          [] r = 4 -> Row(<<".", "wN", "wB", "wQ", "wK">>)]

\* C15: in the initial position validate_move accepts the white Pawn move
\* from (3,1) to (2,1) with an empty reason; make_move of it captures
\* nothing, promotes nothing, leaves the no-capture counter at 1 and black
\* to move, the Pawn on (2,1), (3,1) empty and every other square as it was.
C15_InitialPawnAdvance ==
    /\ (/\ probe # None
        /\ probe.call = "validate_move"
        /\ current_game_state = init_board
        /\ probe.move = PawnB2B3)
          => (probe.result.valid /\ probe.result.reason = "")
    /\ (/\ probe # None
        /\ probe.call = "make_move"
        /\ probe.before = init_board
        /\ probe.move = PawnB2B3)
          => /\ probe.result.captured_piece = Empty
             /\ ~probe.result.promotion
             /\ half_moves_since_capture = 1
             /\ turn = "black"
             /\ board = AfterPawnB2B3
             /\ ~win_flag

C15_Witness ==
    /\ probe # None
    /\ probe.call = "make_move"
    /\ probe.before = init_board
    /\ probe.move = PawnB2B3
    /\ board[2][1] = "wp"
    /\ board[3][1] = Empty
    /\ turn = "black"

Squares == Rows \X Rows

\* (startRow, startCol, endRow, endCol) of a move
Flat(move) == <<move[1][1], move[1][2], move[2][1], move[2][2]>>

LexLess(a, b) ==
    \E i \in 1 .. 4 : a[i] < b[i] /\ \A j \in 1 .. (i - 1) : a[j] = b[j]

\* C16: get_all_valid_moves returns exactly the moves of the grid that
\* validate_move accepts, each once, in ascending lexicographic order of
\* (startRow, startCol, endRow, endCol), all starting on a square owned by
\* the side to move.
C16_GeneratedMovesExactAndOrdered ==
    (probe # None /\ probe.call = "get_all_valid_moves")
        => LET moves == probe.result IN
           /\ \A start \in Squares, end \in Squares :
                 validate_move(current_game_state, <<start, end>>).valid
                    <=> \E k \in DOMAIN moves : moves[k] = <<start, end>>
           /\ \A k \in 1 .. (Len(moves) - 1) :
                 LexLess(Flat(moves[k]), Flat(moves[k + 1]))
           /\ \A k \in DOMAIN moves :
                 board[moves[k][1][1]][moves[k][1][2]] \in SideToMovePieces

\* The moves of several pieces were generated in the crowded position
C16_Witness ==
    /\ probe # None
    /\ probe.call = "get_all_valid_moves"
    /\ board = Crowded.board
    /\ Len(probe.result) > 10
    /\ probe.result[1][1] # probe.result[Len(probe.result)][1]

Pawns == {"wp", "bp"}

\* The piece on the start square of the probed make_move, before the call
Moved == probe.before.board[probe.move[1][1]][probe.move[1][2]]

\* The rank a piece promotes on: row 0 for white, the last row for black
FarRank(piece) == IF piece \in WhitePieces THEN 0 ELSE BOARD_SIZE - 1

\* C12: for every validated move, make_move reports a promotion and places
\* a Queen of the mover's colour on the destination exactly when the moved
\* piece is a Pawn arriving on its far rank (row 0 for white, row 4 for
\* black), by an advance or by a capture; otherwise the piece placed is the
\* piece moved and no promotion is reported.
C12_PromotionOnFarRank ==
    (probe # None /\ probe.call = "make_move")
        => IF Moved \in Pawns /\ probe.move[2][1] = FarRank(Moved)
           THEN /\ probe.result.promotion
                /\ board[probe.move[2][1]][probe.move[2][2]] =
                      (IF Moved = "wp" THEN "wQ" ELSE "bQ")
           ELSE /\ ~probe.result.promotion
                /\ board[probe.move[2][1]][probe.move[2][2]] = Moved

\* A black Pawn has promoted by capturing onto row 4
C12_Witness ==
    /\ probe # None
    /\ probe.call = "make_move"
    /\ Moved = "bp"
    /\ probe.move[2][1] = 4
    /\ probe.move[1][2] # probe.move[2][2]
    /\ probe.result.captured_piece # Empty
    /\ probe.result.promotion
    /\ board[probe.move[2][1]][probe.move[2][2]] = "bQ"

\* C5: validate_move accepts a move exactly when it passes the five checks,
\* and rejects any other move, coordinates off the grid included, with the
\* reason of the first check that fails in the order bounds, source piece,
\* ownership, destination, piece rule.
C5_ValidationPrecedence ==
    (probe # None /\ probe.call = "validate_move")
        => LET first == FirstFailedCheck(current_game_state, probe.move) IN
           /\ probe.result.valid <=> first = 0
           /\ probe.result.reason \in ReasonsOf(first)

\* A piece of the side not to move is asked to move onto a piece of its own
\* colour: checks (3) and (4) both fail and the ownership reason is reported
C5_Witness ==
    /\ probe # None
    /\ probe.call = "validate_move"
    /\ OnGrid(probe.move[1])
    /\ OnGrid(probe.move[2])
    /\ probe.move[1] # probe.move[2]
    /\ {board[probe.move[1][1]][probe.move[1][2]],
        board[probe.move[2][1]][probe.move[2][2]]} \subseteq BlackPieces
    /\ turn = "white"
    /\ ~probe.result.valid
    /\ probe.result.reason = "It's white's turn, but the selected piece is not white."

\* The reference minimax value: at a node with no depth left or with fewer
\* than two Kings, the evaluation of the node; elsewhere the greatest
\* (white to move) or the least (black to move) of the values of the states
\* its legal moves lead to.  RefBest is that extremum over moves[k .. ].
RECURSIVE RefValue(_, _)
RECURSIVE RefBest(_, _, _, _)
RefValue(game_state, depth) ==
    IF depth = 0 \/ CountKings(game_state.board) < 2
    THEN evaluate_board(game_state, heuristic_choice)
    ELSE RefBest(game_state, depth, get_all_valid_moves(game_state), 1)

RefBest(game_state, depth, moves, k) ==
    IF k > Len(moves)
    THEN (IF game_state.turn = "white" THEN NegInf ELSE PosInf)
    ELSE LET child == make_move(game_state, moves[k], TRUE, Self).game_state
             here  == RefValue(child, depth - 1)
             rest  == RefBest(game_state, depth, moves, k + 1)
         IN IF game_state.turn = "white"
            THEN (IF here >= rest THEN here ELSE rest)
            ELSE (IF here <= rest THEN here ELSE rest)

\* C17: the score of a depth searched to its end without a timeout is the
\* reference minimax value of the root state at that depth, with or without
\* alpha-beta pruning.
C17_ScoreIsMinimaxValue ==
    /\ (pc = "returned" /\ use_alpha_beta)
          => LET value == RefValue(current_game_state, Returned.depth) IN
             /\ probe.depth = Returned.depth
             /\ probe.score = value
             /\ Returned.score = value
    /\ (pc = "ai_done" /\ search.caller = "ai_move")
          => \A k \in CompletedDepths :
                search.trace[k].score =
                   RefValue(current_game_state, search.trace[k].depth)

\* Depth-3 searches, plain and pruning, whose value is not the evaluation
\* of the root
C17_Witness ==
    /\ pc = "returned"
    /\ use_alpha_beta
    /\ probe.score = Returned.score
    /\ Returned.depth >= 3
    /\ Returned.move # None
    /\ Returned.score # evaluate_board(current_game_state, heuristic_choice)

\* The state a move of the root leads to
RootChild(move) == make_move(current_game_state, move, TRUE, Self).game_state

\* Over moves[k .. ]: the best reference value of the states the moves lead
\* to (greatest for white, least for black) and the position in moves of the
\* first move that has it; index 0 when there is no move
RECURSIVE RefFirstBest(_, _, _)
RefFirstBest(depth, moves, k) ==
    IF k > Len(moves) THEN [score |-> 0, index |-> 0]
    ELSE LET here == RefValue(RootChild(moves[k]), depth - 1)
             rest == RefFirstBest(depth, moves, k + 1)
         IN IF \/ rest.index = 0
               \/ (turn = "white" /\ here >= rest.score)
               \/ (turn = "black" /\ here <= rest.score)
            THEN [score |-> here, index |-> k]
            ELSE rest

\* C18: the move plain minimax returns for a depth searched to its end is
\* the first, in the order of get_all_valid_moves, of the root moves whose
\* subtree score is the best for the side to move.
C18_FirstBestMoveReturned ==
    (pc = "returned" /\ ~use_alpha_beta /\ Returned.move # None)
        => LET moves == get_all_valid_moves(current_game_state)
               best  == RefFirstBest(Returned.depth, moves, 1)
           IN /\ best.index > 0
              /\ Returned.move = moves[best.index]

\* The first root move was returned although the second scores the same
C18_Witness ==
    /\ pc = "returned"
    /\ ~use_alpha_beta
    /\ Returned.depth >= 2
    /\ LET moves == get_all_valid_moves(current_game_state) IN
       /\ Len(moves) >= 2
       /\ Returned.move = moves[1]
       /\ RefValue(RootChild(moves[2]), Returned.depth - 1) = Returned.score

\* C19: one ai_move call searches the depths 1, 2, 3, ... in that order,
\* each once, never starts a depth above 5, never starts a depth once a
\* clock reading has exceeded the time limit, and always returns, after at
\* most 5 depths.
C19_IterativeDeepening ==
    /\ [](search.caller = "ai_move"
            => /\ \A k \in DOMAIN search.trace : search.trace[k].depth = k
               /\ Len(search.trace) <= 5
               /\ (pc \in {"call_root", "minimax"}
                     => /\ search.depth = Len(search.trace) + 1
                        /\ search.depth <= 5))
    /\ [][(search.caller = "ai_move" /\ pc' = "call_root" /\ pc # "call_root")
             => (~time_up /\ ~time_up')]_vars
    /\ ((search.caller = "ai_move" /\ pc = "ai_loop") ~> (pc = "ai_done"))

\* ai_move has returned after its fifth depth, the time limit not exceeded
C19_Witness ==
    /\ search.caller = "ai_move"
    /\ pc = "ai_done"
    /\ Len(search.trace) = 5
    /\ search.trace[5].depth = 5
    /\ search.depth = 6
    /\ ~time_up

\* The board and side to move the search was called with
AtCallState == [board |-> at_call.board, turn |-> at_call.turn]

\* C20: a branch of the search never sees what another branch did: the
\* state of every active call below the root is its caller's state with
\* the caller's current move made on it, the caller's state being the one
\* it was called with however many of its moves have been tried, and the
\* root's state is, during and after the search, the state it was given.
C20_SiblingBranchesIsolated ==
    /\ search.caller # "none" => current_game_state = AtCallState
    /\ pc = "minimax"
          => /\ stack[1].game_state = AtCallState
             /\ \A k \in 2 .. Len(stack) :
                   /\ stack[k - 1].i \in DOMAIN stack[k - 1].valid_moves
                   /\ stack[k].game_state =
                         make_move(stack[k - 1].game_state,
                                   stack[k - 1].valid_moves[stack[k - 1].i],
                                   TRUE, Self).game_state

\* Three calls deep, each caller having already tried other moves
C20_Witness ==
    /\ pc = "minimax"
    /\ Len(stack) >= 3
    /\ stack[1].i > 1
    /\ stack[2].i > 1
    /\ stack[1].game_state = AtCallState

\* The row a Pawn of the given piece's colour advances to from row r
ForwardRow(piece, r) == IF Color(piece) = "w" THEN r - 1 ELSE r + 1

\* The two Pawn moves of the rules: one square straight forward onto an empty
\* square, or one square diagonally forward onto a piece of the opponent
PawnAdvance(b, piece, start, end) ==
    /\ end[2] = start[2]
    /\ end[1] = ForwardRow(piece, start[1])
    /\ b[end[1]][end[2]] = Empty

PawnCapture(b, piece, start, end) ==
    /\ end[2] \in {start[2] - 1, start[2] + 1}
    /\ end[1] = ForwardRow(piece, start[1])
    /\ b[end[1]][end[2]] \in Pieces
    /\ Color(b[end[1]][end[2]]) # Color(piece)

ValidateProbe == probe # None /\ probe.call = "validate_move"

\* The probe is validate_move on a move whose start square holds a piece of
\* the given type that belongs to the side to move
ProbeOfOwn(p_type) ==
    /\ ValidateProbe
    /\ OnGrid(probe.move[1])
    /\ board[probe.move[1][1]][probe.move[1][2]] \in SideToMovePieces
    /\ Type(board[probe.move[1][1]][probe.move[1][2]]) = p_type

\* C22: validate_move accepts a move of a Pawn of the side to move iff the
\* move is one square straight forward (row-1 for white, row+1 for black)
\* onto an empty square, or one square diagonally forward onto a piece of the
\* opponent; so never backward, sideways, two squares, straight onto an
\* occupied square or diagonally onto an empty square.
C22_PawnRule ==
    ProbeOfOwn("p")
       => LET start == probe.move[1]
              end   == probe.move[2]
              piece == board[start[1]][start[2]]
          IN probe.result.valid
                <=> /\ OnGrid(end)
                    /\ \/ PawnAdvance(board, piece, start, end)
                       \/ PawnCapture(board, piece, start, end)

\* validate_move has accepted a diagonal capture by a black Pawn
C22_Witness ==
    /\ ProbeOfOwn("p")
    /\ turn = "black"
    /\ probe.result.valid
    /\ probe.move[2][2] # probe.move[1][2]

Sign(x) == IF x > 0 THEN 1 ELSE IF x < 0 THEN -1 ELSE 0

OnCommonLine(start, end) ==
    start # end /\ (start[1] = end[1] \/ start[2] = end[2])

OnCommonDiagonal(start, end) ==
    start # end /\ Abs(start[1] - end[1]) = Abs(start[2] - end[2])

\* The squares strictly between two squares of a common row, column or
\* diagonal
Between(start, end) ==
    LET n == Max(Abs(end[1] - start[1]), Abs(end[2] - start[2]))
    IN {<<start[1] + k * Sign(end[1] - start[1]),
          start[2] + k * Sign(end[2] - start[2])>> : k \in 1..(n - 1)}

PathEmpty(b, start, end) == \A sq \in Between(start, end) : b[sq[1]][sq[2]] = Empty

\* The squares the walk of is_valid_linear_move / is_valid_diagonal_move
\* visits from the square after start, in the walk's order, up to the first
\* square where it stops
RECURSIVE Visited(_, _, _, _, _, _)
Visited(b, r, c, dr, dc, end) ==
    IF <<r, c>> = end \/ ~OnGrid(<<r, c>>) \/ b[r][c] # Empty
    THEN <<<<r, c>>>>
    ELSE <<<<r, c>>>> \o Visited(b, r + dr, c + dc, dr, dc, end)

\* C23: for a Queen or Bishop of the side to move and a destination on the
\* grid that does not hold a piece of its own side, validate_move accepts a
\* Queen move iff the squares share a row, column or diagonal and every
\* square strictly between them is empty, and a Bishop move iff they share a
\* diagonal with every square strictly between empty; the walk along the
\* path visits only squares of the grid and its last square is the
\* destination or the first occupied square before it.
C23_SlidersNeverJump ==
    (/\ ProbeOfOwn("Q") \/ ProbeOfOwn("B")
     /\ OnGrid(probe.move[2])
     /\ Target(board, probe.move) \notin SideToMovePieces)
       => LET start == probe.move[1]
              end   == probe.move[2]
              piece == board[start[1]][start[2]]
              lines == IF Type(piece) = "Q"
                       THEN OnCommonLine(start, end) \/ OnCommonDiagonal(start, end)
                       ELSE OnCommonDiagonal(start, end)
              walk  == Visited(board, start[1] + Sign(end[1] - start[1]),
                               start[2] + Sign(end[2] - start[2]),
                               Sign(end[1] - start[1]), Sign(end[2] - start[2]),
                               end)
          IN /\ probe.result.valid <=> (lines /\ PathEmpty(board, start, end))
             /\ lines => /\ \A k \in 1..Len(walk) : OnGrid(walk[k])
                         /\ walk[Len(walk)] \in Between(start, end) \cup {end}
                         /\ probe.result.valid <=> walk[Len(walk)] = end
                         /\ PathWalk(board, start[1] + Sign(end[1] - start[1]),
                                     start[2] + Sign(end[2] - start[2]),
                                     Sign(end[1] - start[1]),
                                     Sign(end[2] - start[2]), end) # "fault"

\* validate_move has rejected a Queen move along a line because a piece
\* stands strictly between start and destination
C23_Witness ==
    /\ ProbeOfOwn("Q")
    /\ OnGrid(probe.move[2])
    /\ Target(board, probe.move) \notin SideToMovePieces
    /\ OnCommonLine(probe.move[1], probe.move[2])
       \/ OnCommonDiagonal(probe.move[1], probe.move[2])
    /\ ~PathEmpty(board, probe.move[1], probe.move[2])
    /\ ~probe.result.valid

\* The number of squares of a board that hold the given piece
Count(b, piece) == Cardinality({sq \in Squares : b[sq[1]][sq[2]] = piece})

\* The weight tables of the three profiles; any other profile is the default
WeightTable(h) ==
    LET king == IF h = "e1" THEN 900 ELSE IF h = "e2" THEN 1200 ELSE 999
    IN [p |-> 1, B |-> 3, N |-> 3, Q |-> 9, K |-> king]

\* Weights of the white pieces minus weights of the black pieces
MaterialBalance(b, h) ==
    LET w == WeightTable(h)
        Diff(t) == Count(b, "w" \o t) - Count(b, "b" \o t)
    IN w.p * Diff("p") + w.B * Diff("B") + w.N * Diff("N")
       + w.Q * Diff("Q") + w.K * Diff("K")

\* C24: evaluate_board returns the sum of the weights of the white pieces
\* minus the sum of the weights of the black pieces under the table of the
\* selected profile (pawn 1, bishop 3, knight 3, queen 9, king 999; king 900
\* for e1, 1200 for e2, the default for any other profile); the value is a
\* function of the board alone, and it is 0 on the initial position.
C24_ScoreIsMaterialBalance ==
    (probe # None /\ probe.call = "evaluate_board")
       => /\ probe.result = MaterialBalance(board, probe.heuristic_choice)
          /\ board = init_board.board => probe.result = 0

\* evaluate_board has scored, under profile e2, a position where only one
\* side has a King
C24_Witness ==
    /\ probe # None
    /\ probe.call = "evaluate_board"
    /\ probe.heuristic_choice = "e2"
    /\ Count(board, "wK") # Count(board, "bK")
    /\ probe.result \notin {0, MaterialBalance(board, "e0")}

\* C27: validate_move rejects every move whose start and end squares are
\* equal; when the square holds a King, Queen or Bishop of the side to move
\* the rejection is the one of the own-piece destination test, which comes
\* before the piece rule; so every move make_move applies changes the board.
C27_NoNullMove ==
    /\ (ValidateProbe /\ probe.move[1] = probe.move[2])
          => /\ ~probe.result.valid
             /\ (ProbeOfOwn("K") \/ ProbeOfOwn("Q") \/ ProbeOfOwn("B"))
                   => probe.result.reason
                         = "Cannot move to a square occupied by your own piece."
    /\ (ValidateProbe /\ probe.result.valid) => probe.move[1] # probe.move[2]
    /\ (probe # None /\ probe.call = "make_move")
          => /\ probe.move[1] # probe.move[2]
             /\ board # probe.before.board

\* validate_move has rejected the move of a Queen of the side to move to the
\* square it stands on
C27_Witness ==
    /\ ProbeOfOwn("Q")
    /\ probe.move[1] = probe.move[2]
    /\ ~probe.result.valid
    /\ probe.result.reason = "Cannot move to a square occupied by your own piece."

----------------------------------------------------------------------------
(* Further properties of the game loop, checked under Spec *)

PieceCount(b) == Cardinality({sq \in Squares : b[sq[1]][sq[2]] # Empty})

\* C26: in every state of a game each colour has at most one King and every
\* cell holds one piece or is empty; no step increases the number of pieces;
\* an applied move onto an empty square leaves the number unchanged, an
\* applied move onto a piece decreases it by exactly one and that piece
\* belongs to the opponent of the mover.
C26_PieceConservation ==
    /\ [](/\ Count(board, "wK") <= 1
          /\ Count(board, "bK") <= 1
          /\ \A sq \in Squares : board[sq[1]][sq[2]] \in Pieces \cup {Empty})
    /\ [][PieceCount(board') <= PieceCount(board)]_vars
    /\ [][(applied' = applied + 1)
             => LET captured == Target(board, chosen_move)
                    mover == board[chosen_move[1][1]][chosen_move[1][2]]
                IN IF captured = Empty
                   THEN PieceCount(board') = PieceCount(board)
                   ELSE /\ PieceCount(board') = PieceCount(board) - 1
                        /\ Color(captured) # Color(mover)
                        /\ Color(mover) = (IF turn = "white" THEN "w" ELSE "b")]_vars

\* Two moves into a game from the initial position, the second a capture:
\* nine of the ten pieces are left
C26_Witness ==
    /\ applied = 2
    /\ played_since_capture = 0
    /\ PieceCount(board) = PieceCount(init_board.board) - 1
    /\ Count(board, "wK") = 1
    /\ Count(board, "bK") = 1

\* C28: current_turn goes up by exactly one on each applied move and changes
\* on no other step, it never exceeds MAX_TURNS, and when the move that
\* brings it to MAX_TURNS captures a King the game ends as a win for the
\* mover and not as the maximum-moves draw.
C28_WinBeforeMaxTurnsDraw ==
    /\ [](current_turn <= MAX_TURNS)
    /\ [][/\ (applied' = applied + 1) <=> (current_turn' = current_turn + 1)
          /\ (board' # board) <=> (current_turn' = current_turn + 1)
          /\ (current_turn' # current_turn) => (current_turn' = current_turn + 1)]_vars
    /\ [][(/\ current_turn' = MAX_TURNS
           /\ current_turn = MAX_TURNS - 1
           /\ Target(board, chosen_move) \in Kings)
             => /\ pc' = "over"
                /\ win_flag'
                /\ output'.event = "wins"
                /\ output'.event \notin Draws]_vars

\* The hundredth move of a game has captured a King and the game is over as
\* a win
C28_Witness ==
    /\ pc = "over"
    /\ current_turn = MAX_TURNS
    /\ applied > 0
    /\ win_flag
    /\ CountKings(board) = 1
    /\ output.event = "wins"

====
